---- MODULE Spec2Model ----
(***************************************************************************)
(* Model of opendbt: the logger property (OpenDbtLogger.log), the dbt      *)
(* facade (OpenDbtCli, OpenDbtProject) and the custom adapter resolver     *)
(* (dbtcommon.py).                                                         *)
(*                                                                         *)
(* Python strings whose content matters (stripped, split, searched) are    *)
(* sequences of one-character strings.  Opaque objects (callbacks,         *)
(* exceptions, messages, paths) are TLA+ strings.  A Python list object    *)
(* that the code may alias is one variable per object.                     *)
(***************************************************************************)
EXTENDS Integers, Sequences, FiniteSets, TLC

VARIABLES
    \* ---- dbtcommon.py ----
    config,                     \* the AdapterRequiredConfig handed to get_custom_adapter_config_value
    custom_adapter_class_name,  \* the name handed to get_custom_adapter_class_by_name
    config_value,               \* outcome of get_custom_adapter_config_value
    adapter_class,              \* outcome of get_custom_adapter_class_by_name
    imported,                   \* module names handed to importlib.import_module, in order
    \* ---- OpenDbtLogger ----
    inst_log,                   \* per instance: the attribute _log
    handlers,                   \* handlers this code attached to the 'opendbt' logger
    other_handlers,             \* handlers other code attached to the 'opendbt' logger
    root_handlers,              \* whether the root logger has a handler
    returned,                   \* the loggers the reads of log have returned so far
    \* ---- OpenDbtCli.run (static) ----
    tool,                       \* the dbtRunnerResult produced by the base tool
    run_outcome,                \* what OpenDbtCli.run did with it
    \* ---- OpenDbtCli / OpenDbtProject ----
    ctor_callbacks,             \* value of callbacks when the constructor ran
    user_callbacks,             \* the list object self._user_callbacks refers to
    project_callbacks_set,      \* self._project_callbacks is not None (it is then the same list object)
    dbt_callbacks,              \* project variable 'dbt_callbacks'
    resolvable,                 \* the dotted names that resolve to an attribute
    profiles_dir,               \* self.profiles_dir is not None
    via_project,                \* the OpenDbtCli instance is the .cli of an OpenDbtProject
    project_args,               \* OpenDbtProject.args
    caller_args,                \* the list object the caller holds and passes as args
    caller_orig,                \* the content of that list when the caller built it
    handed,                     \* what the last call invoked the base tool with
    last_call                   \* the last call made on the object

adapter_vars == <<config, custom_adapter_class_name, config_value, adapter_class, imported>>
log_vars     == <<inst_log, handlers, other_handlers, root_handlers, returned>>
run_vars     == <<tool, run_outcome>>
cli_vars     == <<ctor_callbacks, user_callbacks, project_callbacks_set, dbt_callbacks,
                  resolvable, profiles_dir, via_project, project_args,
                  caller_args, caller_orig, handed, last_call>>
vars         == <<adapter_vars, log_vars, run_vars, cli_vars>>

(***************************************************************************)
(* Bounds                                                                  *)
(***************************************************************************)
MaxValueLen == 2    \* longest value of a 'dbt_custom_adapter' variable
MaxNameLen  == 5    \* longest adapter class name
NumInst     == 4    \* OpenDbtLogger instances
MaxResults  == 2    \* longest result list of the base tool
MaxOther    == 2    \* handlers other code attaches to the 'opendbt' logger

(***************************************************************************)
(* Python string and list helpers                                          *)
(***************************************************************************)
Strings(chars, n) == UNION {[1..k -> chars] : k \in 0..n}

Contains(s, c) == \E i \in 1..Len(s) : s[i] = c

Count(s, c) == Cardinality({i \in 1..Len(s) : s[i] = c})

RECURSIVE lstrip(_)
lstrip(s) == IF s = <<>> THEN s
             ELSE IF Head(s) = " " THEN lstrip(Tail(s)) ELSE s

RECURSIVE rstrip(_)
rstrip(s) == IF s = <<>> THEN s
             ELSE IF s[Len(s)] = " " THEN rstrip(SubSeq(s, 1, Len(s) - 1)) ELSE s

strip(s) == rstrip(lstrip(s))

\* truth value of a str or a list
Truthy(s) == Len(s) > 0

\* the cut at the first '.' instead
split1(s) ==
    LET i == CHOOSE k \in 1..Len(s) : s[k] = "." /\ \A j \in 1..(k-1) : s[j] # "."
    IN  <<SubSeq(s, 1, i - 1), SubSeq(s, i + 1, Len(s))>>

\* s.rsplit('.', 1) for an s that contains a '.'
rsplit1(s) ==
    LET i == CHOOSE k \in 1..Len(s) : s[k] = "." /\ \A j \in (k+1)..Len(s) : s[j] # "."
    IN  <<SubSeq(s, 1, i - 1), SubSeq(s, i + 1, Len(s))>>

(***************************************************************************)
(* dbtcommon.get_custom_adapter_config_value                               *)
(* A variable container is [attr, key, val]: the config has the attribute, *)
(* the attribute holds the key 'dbt_custom_adapter', and the key's value.  *)
(***************************************************************************)
ValueChars == {" ", "x"}

VarSlots ==
    {[attr |-> FALSE, key |-> FALSE, val |-> <<>>],
     [attr |-> TRUE,  key |-> FALSE, val |-> <<>>]}
    \cup {[attr |-> TRUE, key |-> TRUE, val |-> v] : v \in Strings(ValueChars, MaxValueLen)}

Configs == [cli_vars : VarSlots, vars : VarSlots]

NotCalled == [kind |-> "not_called", val |-> <<>>]

get_custom_adapter_config_value_project_first(cfg) ==
    IF cfg.vars.attr /\ cfg.vars.key
          /\ Truthy(cfg.vars.val) /\ Truthy(strip(cfg.vars.val))
    THEN [kind |-> "str", val |-> cfg.vars.val]
    ELSE IF cfg.cli_vars.attr /\ cfg.cli_vars.key
               /\ Truthy(cfg.cli_vars.val) /\ Truthy(strip(cfg.cli_vars.val))
         THEN [kind |-> "str", val |-> cfg.cli_vars.val]
         ELSE [kind |-> "None", val |-> <<>>]

get_custom_adapter_config_value(cfg) ==
    IF cfg.cli_vars.attr /\ cfg.cli_vars.key
          /\ Truthy(cfg.cli_vars.val) /\ Truthy(strip(cfg.cli_vars.val))
    THEN [kind |-> "str", val |-> cfg.cli_vars.val]
    ELSE IF cfg.vars.attr /\ cfg.vars.key
               /\ Truthy(cfg.vars.val) /\ Truthy(strip(cfg.vars.val))
         THEN [kind |-> "str", val |-> cfg.vars.val]
         ELSE [kind |-> "None", val |-> <<>>]

GetCustomAdapterConfigValue ==
    /\ config_value.kind = "not_called"
    /\ config_value' = get_custom_adapter_config_value(config)
    /\ UNCHANGED <<config, custom_adapter_class_name, adapter_class, imported>>
    /\ UNCHANGED <<log_vars, run_vars, cli_vars>>

(***************************************************************************)
(* dbtcommon.get_custom_adapter_class_by_name                              *)
(***************************************************************************)
NameChars == {"a", "."}

AdapterNames == Strings(NameChars, MaxNameLen)

\* what the interpreter finds for a module name
Lookups == {"found", "found_without_attribute", "not_found"}

NoClass == [kind |-> "not_called", exc |-> "", provided |-> <<>>,
            module |-> <<>>, attribute |-> <<>>, imports |-> <<>>, lookup |-> ""]

\* importlib.import_module(name): an empty name and a relative name are
\* rejected before any lookup, otherwise the lookup decides
import_module(name, lookup) ==
    IF name = <<>> THEN "ValueError"
    ELSE IF Head(name) = "." THEN "TypeError"
    ELSE IF lookup = "not_found" THEN "ModuleNotFoundError"
    ELSE "module"

get_custom_adapter_class_by_name(name, lookup) ==
    IF ~Contains(name, ".")
    THEN [NoClass EXCEPT !.kind = "raise", !.exc = "ValueError", !.provided = name]
    ELSE LET parts == rsplit1(name)
             imp   == import_module(parts[1], lookup)
             base  == [NoClass EXCEPT !.module = parts[1], !.attribute = parts[2],
                                      !.imports = <<parts[1]>>]
         IN  IF imp = "module"
             THEN IF lookup = "found"
                  THEN [base EXCEPT !.kind = "return", !.lookup = lookup]
                  ELSE [base EXCEPT !.kind = "raise", !.exc = "AttributeError",
                                    !.lookup = lookup]
             ELSE IF imp = "ModuleNotFoundError"
                  THEN [base EXCEPT !.kind = "raise", !.exc = "Exception",
                                    !.provided = name, !.lookup = lookup]
                  ELSE [base EXCEPT !.kind = "raise", !.exc = imp, !.lookup = "rejected"]

GetCustomAdapterClassByName ==
    /\ adapter_class.kind = "not_called"
    /\ \E lookup \in Lookups :
          LET r == get_custom_adapter_class_by_name(custom_adapter_class_name, lookup)
          IN  /\ adapter_class' = r
              /\ imported' = imported \o r.imports
    /\ UNCHANGED <<config, custom_adapter_class_name, config_value>>
    /\ UNCHANGED <<log_vars, run_vars, cli_vars>>

(***************************************************************************)
(* OpenDbtLogger.log                                                       *)
(* logging.getLogger(name) returns the one logger registered under name.   *)
(***************************************************************************)
Insts == 1..NumInst

getLogger(name) == name

hasHandlers_ignored == FALSE

\* Logger.hasHandlers(): the logger or an ancestor (the root logger) has one
hasHandlers == handlers + other_handlers > 0 \/ root_handlers

\* one read of the property log on instance i
log(i) ==
    /\ IF inst_log[i] = "None"
       THEN /\ inst_log' = [inst_log EXCEPT ![i] = getLogger("opendbt")]
            /\ handlers' = IF ~hasHandlers THEN handlers + 1 ELSE handlers
       ELSE UNCHANGED <<inst_log, handlers>>
    /\ returned' = returned \cup {inst_log'[i]}
    /\ UNCHANGED <<other_handlers, root_handlers>>

Log ==
    /\ \E i \in Insts : log(i)
    /\ UNCHANGED <<adapter_vars, run_vars, cli_vars>>

\* other code of the process gives the root logger a handler
\* (logging.basicConfig()) or takes the root logger's handlers away
ConfigureRoot ==
    /\ root_handlers' = ~root_handlers
    /\ UNCHANGED <<inst_log, handlers, other_handlers, returned>>
    /\ UNCHANGED <<adapter_vars, run_vars, cli_vars>>

\* other code attaches a handler of its own to the 'opendbt' logger
OtherAddHandler ==
    /\ other_handlers < MaxOther
    /\ other_handlers' = other_handlers + 1
    /\ UNCHANGED <<inst_log, handlers, root_handlers, returned>>
    /\ UNCHANGED <<adapter_vars, run_vars, cli_vars>>

\* other code removes a handler it attached
OtherRemoveHandler ==
    /\ other_handlers > 0
    /\ other_handlers' = other_handlers - 1
    /\ UNCHANGED <<inst_log, handlers, root_handlers, returned>>
    /\ UNCHANGED <<adapter_vars, run_vars, cli_vars>>

(***************************************************************************)
(* OpenDbtCli.run (static method)                                          *)
(* A dbtRunnerResult is [success, exception, iterable, result]; result is  *)
(* the list of RunResult entries when iterable.                            *)
(***************************************************************************)
Statuses  == {"error", "success"}
Messages  == {"m1", "m2"}
RunResults == [status : Statuses, message : Messages]
Exceptions == {"None", "exc1", "exc2"}

ToolResults ==
    [success : BOOLEAN, exception : Exceptions, iterable : {TRUE},
     result : UNION {[1..k -> RunResults] : k \in 0..MaxResults}]
    \cup [success : BOOLEAN, exception : Exceptions, iterable : {FALSE}, result : {<<>>}]

NoOutcome == [kind |-> "not_called", exc |-> "", msg |-> ""]

raise_error_message_last(results) ==
    LET errors == {i \in 1..Len(results) : results[i].status = "error"}
    IN  IF errors = {}
        THEN [kind |-> "raise", exc |-> "DbtRuntimeError", msg |-> "DBT execution failed!"]
        ELSE LET last == CHOOSE i \in errors : \A j \in errors : j <= i
             IN  [kind |-> "raise", exc |-> "DbtRuntimeError", msg |-> results[last].message]

\* the loop over result.result
RECURSIVE raise_error_message(_)
raise_error_message(results) ==
    IF results = <<>>
    THEN [kind |-> "raise", exc |-> "DbtRuntimeError", msg |-> "DBT execution failed!"]
    ELSE LET _result == Head(results)
             _result_messages == IF _result.status = "error" THEN "nl" ELSE ""
         IN  IF _result_messages # ""
             THEN [kind |-> "raise", exc |-> "DbtRuntimeError", msg |-> _result.message]
             ELSE raise_error_message(Tail(results))

run_wrapping(result) ==
    IF result.success
    THEN [kind |-> "return", exc |-> "", msg |-> ""]
    ELSE IF ~result.iterable
         THEN [kind |-> "raise", exc |-> "TypeError", msg |-> ""]
         ELSE raise_error_message(result.result)

run(result) ==
    IF result.success
    THEN [kind |-> "return", exc |-> "", msg |-> ""]
    ELSE IF result.exception # "None"
         THEN [kind |-> "raise", exc |-> result.exception, msg |-> ""]
         ELSE IF ~result.iterable
              THEN [kind |-> "raise", exc |-> "TypeError", msg |-> ""]
              ELSE raise_error_message(result.result)

Run ==
    /\ run_outcome.kind = "not_called"
    /\ run_outcome' = run(tool)
    /\ UNCHANGED tool
    /\ UNCHANGED <<adapter_vars, log_vars, cli_vars>>

(***************************************************************************)
(* OpenDbtCli                                                              *)
(***************************************************************************)
MaxVarLen    == 3   \* longest value of the project variable 'dbt_callbacks'
MaxArgs      == 2   \* longest list the caller builds
MaxCallerLen == 8   \* OpenDbtProject.run is not called on a longer caller list

CliProjectDir   == "nearest_project_dir"    \* OpenDbtCli.project_dir.as_posix()
ProjectDir      == "project_dir"            \* OpenDbtProject.project_dir.as_posix()
ProfilesDirPath == "profiles_dir"           \* profiles_dir.as_posix()
DEFAULT_TARGET  == "dev"

CallbackChars == {"a", "b", ","}
CallbackNames == {<<"a">>, <<"b">>}

\* s.split(sep)
RECURSIVE split(_, _)
split(s, sep) ==
    IF ~Contains(s, sep) THEN <<s>>
    ELSE LET i == CHOOSE k \in 1..Len(s) : s[k] = sep /\ \A j \in 1..(k-1) : s[j] # sep
         IN  <<SubSeq(s, 1, i - 1)>> \o split(SubSeq(s, i + 1, Len(s)), sep)

\* the attribute a resolvable name stands for
attribute_of(name) == IF name = <<"a">> THEN "cb_a" ELSE "cb_b"

\* Utils.import_module_attribute_by_name: the attribute, or an exception
import_module_attribute_by_name(name, names) ==
    IF name \in names THEN [raised |-> FALSE, attribute |-> attribute_of(name)]
    ELSE [raised |-> TRUE, attribute |-> ""]

\* the for loop of project_callbacks: appends to the list until a name fails
RECURSIVE append_project_callbacks(_, _, _)
append_project_callbacks(list, modules, names) ==
    IF modules = <<>> THEN [list |-> list, raised |-> FALSE]
    ELSE LET _project_callback == import_module_attribute_by_name(Head(modules), names)
         IN  IF _project_callback.raised
             THEN [list |-> list, raised |-> TRUE]
             ELSE append_project_callbacks(Append(list, _project_callback.attribute),
                                           Tail(modules), names)

\* the property project_callbacks; list is both _user_callbacks and, once
\* assigned, _project_callbacks
project_callbacks(list, assigned, var, names) ==
    IF ~(assigned /\ Truthy(list))
    THEN IF var.key
         THEN LET r == append_project_callbacks(list, split(var.val, ","), names)
              IN  [list |-> r.list, assigned |-> TRUE, raised |-> r.raised]
         ELSE [list |-> list, assigned |-> TRUE, raised |-> FALSE]
    ELSE [list |-> list, assigned |-> assigned, raised |-> FALSE]

add_default_dirs_always(run_args, has_profiles_dir) ==
    LET with_project == run_args \o <<"--project-dir", CliProjectDir>>
    IN  IF ~Contains(with_project, "--profiles-dir") /\ has_profiles_dir
        THEN with_project \o <<"--profiles-dir", ProfilesDirPath>>
        ELSE with_project

\* lines 93-96 of invoke, on the list run_args
add_default_dirs(run_args, has_profiles_dir) ==
    LET with_project == IF ~Contains(run_args, "--project-dir")
                        THEN run_args \o <<"--project-dir", CliProjectDir>>
                        ELSE run_args
    IN  IF ~Contains(with_project, "--profiles-dir") /\ has_profiles_dir
        THEN with_project \o <<"--profiles-dir", ProfilesDirPath>>
        ELSE with_project

ResolveError == [kind |-> "raise", exc |-> "ResolveError", msg |-> ""]

\* OpenDbtCli.invoke(args, callbacks) when the base tool answers result
invoke(args, callbacks, result) ==
    LET pc            == project_callbacks(user_callbacks, project_callbacks_set,
                                           dbt_callbacks, resolvable)
        run_callbacks == IF Truthy(callbacks) THEN pc.list \o callbacks ELSE pc.list
    IN  [pc            |-> pc,
         handed        |-> ~pc.raised,
         run_args      |-> IF pc.raised THEN args ELSE add_default_dirs(args, profiles_dir),
         run_callbacks |-> run_callbacks,
         outcome       |-> IF pc.raised THEN ResolveError ELSE run(result)]

NoHanded == [called |-> FALSE, args |-> <<>>, callbacks |-> <<>>]

NoCall == [op |-> "none", passed_list |-> FALSE, args_before |-> <<>>,
           invoke_args |-> <<>>, callbacks |-> <<>>, handed |-> FALSE,
           outcome |-> NoOutcome]

ArgTokens == {"--project-dir", "--profiles-dir", "--select"}
ArgLists  == Strings(ArgTokens, MaxArgs)

InvokeCallbacks == {<<>>, <<"i1">>}

CliToolResults ==
    {[success |-> TRUE,  exception |-> "None", iterable |-> TRUE, result |-> <<>>],
     [success |-> FALSE, exception |-> "exc1", iterable |-> TRUE, result |-> <<>>],
     [success |-> FALSE, exception |-> "None", iterable |-> TRUE, result |-> <<>>]}

\* a read of the property project_callbacks by the caller
ProjectCallbacks ==
    /\ LET pc == project_callbacks(user_callbacks, project_callbacks_set,
                                   dbt_callbacks, resolvable)
       IN  /\ user_callbacks' = pc.list
           /\ project_callbacks_set' = pc.assigned
           /\ last_call' = [NoCall EXCEPT !.op = "project_callbacks",
                               !.outcome = IF pc.raised THEN ResolveError
                                           ELSE [kind |-> "return", exc |-> "", msg |-> ""]]
    /\ handed' = NoHanded
    /\ UNCHANGED <<ctor_callbacks, dbt_callbacks, resolvable, profiles_dir, via_project,
                   project_args, caller_args, caller_orig>>
    /\ UNCHANGED <<adapter_vars, log_vars, run_vars>>

\* cli.invoke(args, callbacks); the caller passes its list or None
Invoke ==
    /\ \E pass_none \in BOOLEAN, callbacks \in InvokeCallbacks, result \in CliToolResults :
          LET args == IF pass_none THEN <<>> ELSE caller_args
              r    == invoke(args, callbacks, result)
          IN  /\ user_callbacks' = r.pc.list
              /\ project_callbacks_set' = r.pc.assigned
              /\ caller_args' = IF ~pass_none /\ Truthy(caller_args)
                                THEN r.run_args ELSE caller_args
              /\ handed' = IF r.handed
                           THEN [called |-> TRUE, args |-> r.run_args,
                                 callbacks |-> r.run_callbacks]
                           ELSE NoHanded
              /\ last_call' = [op |-> "invoke", passed_list |-> ~pass_none,
                               args_before |-> args, invoke_args |-> args,
                               callbacks |-> callbacks, handed |-> r.handed,
                               outcome |-> r.outcome]
    /\ UNCHANGED <<ctor_callbacks, dbt_callbacks, resolvable, profiles_dir, via_project,
                   project_args, caller_orig>>
    /\ UNCHANGED <<adapter_vars, log_vars, run_vars>>

\* line 143: ["docs", "generate"] + args if args else []
docs_generate_args(args) ==
    IF Truthy(args) THEN <<"docs", "generate">> \o args ELSE <<>>

\* OpenDbtCli.generate_docs(args), also reached through OpenDbtProject.generate_docs
GenerateDocs ==
    /\ \E pass_none \in BOOLEAN, result \in CliToolResults :
          LET args  == IF pass_none THEN <<>> ELSE caller_args
              _args == docs_generate_args(args)
              r     == invoke(_args, <<>>, result)
          IN  /\ user_callbacks' = r.pc.list
              /\ project_callbacks_set' = r.pc.assigned
              /\ handed' = IF r.handed
                           THEN [called |-> TRUE, args |-> r.run_args,
                                 callbacks |-> r.run_callbacks]
                           ELSE NoHanded
              /\ last_call' = [op |-> "generate_docs", passed_list |-> ~pass_none,
                               args_before |-> args, invoke_args |-> _args,
                               callbacks |-> <<>>, handed |-> r.handed,
                               outcome |-> IF r.outcome.kind = "return"
                                           THEN [r.outcome EXCEPT !.kind = "return_none"]
                                           ELSE r.outcome]
    /\ UNCHANGED <<ctor_callbacks, dbt_callbacks, resolvable, profiles_dir, via_project,
                   project_args, caller_args, caller_orig>>
    /\ UNCHANGED <<adapter_vars, log_vars, run_vars>>

(***************************************************************************)
(* OpenDbtProject                                                          *)
(***************************************************************************)
Commands == {"build"}
Targets  == {"None", "prod"}

\* list.remove(x) for a list that contains x
remove(list, x) ==
    LET i == CHOOSE k \in 1..Len(list) : list[k] = x /\ \A j \in 1..(k-1) : list[j] # x
    IN  SubSeq(list, 1, i - 1) \o SubSeq(list, i + 1, Len(list))

\* lines 177-181 of OpenDbtProject.run: the list run_args after the += statements
run_options(args, target, has_profiles_dir) ==
    args \o <<"--target", IF target # "None" THEN target ELSE DEFAULT_TARGET>>
         \o <<"--project-dir", ProjectDir>>
         \o (IF has_profiles_dir THEN <<"--profiles-dir", ProfilesDirPath>> ELSE <<>>)

\* OpenDbtProject.run(command, target, args, use_subprocess, write_json); the
\* OpenDbtProject is OpenDbtLogger instance 1
ProjectRun ==
    /\ via_project
    /\ Len(caller_args) <= MaxCallerLen
    /\ \E command \in Commands, target \in Targets, pass_none \in BOOLEAN,
          use_subprocess \in BOOLEAN, write_json \in BOOLEAN, result \in CliToolResults :
          LET args      == IF pass_none THEN <<>> ELSE caller_args
              run_args1 == run_options(args, target, profiles_dir)
              run_args2 == <<command>> \o run_args1 \o project_args
              call      == [op |-> "project_run", passed_list |-> ~pass_none,
                            args_before |-> args, invoke_args |-> <<>>,
                            callbacks |-> <<>>, handed |-> FALSE, outcome |-> NoOutcome]
          IN  /\ caller_args' = IF ~pass_none /\ Truthy(caller_args)
                                THEN run_args1 ELSE caller_args
              /\ IF write_json /\ ~Contains(run_args2, "--no-write-json")
                 THEN \* list.remove raises ValueError
                      /\ last_call' = [call EXCEPT !.outcome =
                                          [kind |-> "raise", exc |-> "ValueError", msg |-> ""]]
                      /\ handed' = NoHanded
                      /\ UNCHANGED <<user_callbacks, project_callbacks_set>>
                      /\ UNCHANGED log_vars
                 ELSE LET run_args3 == IF write_json
                                       THEN remove(run_args2, "--no-write-json")
                                       ELSE run_args2
                      IN  /\ log(1)
                          /\ IF use_subprocess
                             THEN /\ last_call' = [call EXCEPT !.outcome =
                                          [kind |-> "subprocess", exc |-> "", msg |-> ""]]
                                  /\ handed' = NoHanded
                                  /\ UNCHANGED <<user_callbacks, project_callbacks_set>>
                             ELSE LET r == invoke(run_args3, <<>>, result)
                                  IN  /\ user_callbacks' = r.pc.list
                                      /\ project_callbacks_set' = r.pc.assigned
                                      /\ handed' = IF r.handed
                                                   THEN [called |-> TRUE, args |-> r.run_args,
                                                         callbacks |-> r.run_callbacks]
                                                   ELSE NoHanded
                                      /\ last_call' = [call EXCEPT !.invoke_args = run_args3,
                                                           !.handed = r.handed,
                                                           !.outcome = r.outcome]
    /\ UNCHANGED <<ctor_callbacks, dbt_callbacks, resolvable, profiles_dir, via_project,
                   project_args, caller_orig>>
    /\ UNCHANGED <<adapter_vars, run_vars>>

(***************************************************************************)
(* Initial states                                                          *)
(***************************************************************************)
IdleAdapter ==
    /\ config = [cli_vars |-> [attr |-> FALSE, key |-> FALSE, val |-> <<>>],
                 vars     |-> [attr |-> FALSE, key |-> FALSE, val |-> <<>>]]
    /\ custom_adapter_class_name = <<>>
    /\ config_value = NotCalled
    /\ adapter_class = NoClass
    /\ imported = <<>>

\* class attribute _log = None, no handler anywhere
InitLog ==
    /\ inst_log = [i \in Insts |-> "None"]
    /\ handlers = 0
    /\ other_handlers = 0
    /\ root_handlers = FALSE
    /\ returned = {}

IdleRun ==
    /\ tool = [success |-> TRUE, exception |-> "None", iterable |-> TRUE, result |-> <<>>]
    /\ run_outcome = NoOutcome

NoVar == [key |-> FALSE, val |-> <<>>]

\* OpenDbtCli.__init__ (and OpenDbtProject.__init__ when via_project) has run
InitCli(ctors, variables, resolvables, profiles, lists, projectArgs) ==
    /\ via_project \in BOOLEAN
    /\ ctor_callbacks \in (IF via_project THEN {<<>>} ELSE ctors)
    /\ user_callbacks = ctor_callbacks
    /\ project_callbacks_set = FALSE
    /\ dbt_callbacks \in variables
    /\ resolvable \in resolvables
    /\ profiles_dir \in profiles
    /\ project_args \in (IF via_project THEN projectArgs ELSE {<<>>})
    /\ caller_args \in lists
    /\ caller_orig = caller_args
    /\ handed = NoHanded
    /\ last_call = NoCall

IdleCli ==
    /\ via_project = FALSE
    /\ ctor_callbacks = <<>>
    /\ user_callbacks = <<>>
    /\ project_callbacks_set = FALSE
    /\ dbt_callbacks = NoVar
    /\ resolvable = {}
    /\ profiles_dir = FALSE
    /\ project_args = <<>>
    /\ caller_args = <<>>
    /\ caller_orig = <<>>
    /\ handed = NoHanded
    /\ last_call = NoCall

(***************************************************************************)
(* Specifications                                                          *)
(***************************************************************************)
\* dbtcommon.py: the two functions applied to every config and name
InitAdapter ==
    /\ config \in Configs
    /\ custom_adapter_class_name \in AdapterNames
    /\ config_value = NotCalled
    /\ adapter_class = NoClass
    /\ imported = <<>>
    /\ InitLog /\ IdleRun /\ IdleCli

NextAdapter == GetCustomAdapterConfigValue \/ GetCustomAdapterClassByName

SpecAdapter == InitAdapter /\ [][NextAdapter]_vars

\* OpenDbtLogger: reads of log on several instances, in a process whose
\* other code may configure logging
InitLogger == IdleAdapter /\ InitLog /\ IdleRun /\ IdleCli

NextLogger == Log \/ ConfigureRoot \/ OtherAddHandler \/ OtherRemoveHandler

SpecLogger == InitLogger /\ [][NextLogger]_vars

\* OpenDbtCli.run applied to every answer of the base tool
InitRun ==
    /\ tool \in ToolResults
    /\ run_outcome = NoOutcome
    /\ IdleAdapter /\ InitLog /\ IdleCli

NextRun == Run

SpecRun == InitRun /\ [][NextRun]_vars

\* one OpenDbtCli with every project variable 'dbt_callbacks'
DbtCallbacksVars ==
    {NoVar} \cup {[key |-> TRUE, val |-> v] : v \in Strings(CallbackChars, MaxVarLen)}

InitCallbacks ==
    /\ InitCli({<<>>, <<"u1">>}, DbtCallbacksVars, SUBSET CallbackNames,
               {FALSE}, {<<>>}, {<<>>})
    /\ IdleAdapter /\ InitLog /\ IdleRun

NextCallbacks == ProjectCallbacks \/ Invoke \/ GenerateDocs \/ ProjectRun

SpecCallbacks == InitCallbacks /\ [][NextCallbacks]_vars

\* one OpenDbtCli called with every argument list
InitArgs ==
    /\ InitCli({<<"u1">>}, {NoVar, [key |-> TRUE, val |-> <<"a">>]}, {{<<"a">>}},
               BOOLEAN, ArgLists, {<<>>, <<"--no-write-json">>})
    /\ IdleAdapter /\ InitLog /\ IdleRun

NextArgs == ProjectCallbacks \/ Invoke \/ GenerateDocs \/ ProjectRun

SpecArgs == InitArgs /\ [][NextArgs]_vars

(***************************************************************************)
(* Properties                                                              *)
(***************************************************************************)

\* C1: OpenDbtCli.run returns only when the base tool reported success; when
\* it reported failure run raises, and when the failed result carries an
\* exception the exception raised is that very exception.
C1_RunRaisesUnlessSuccess ==
    run_outcome.kind # "not_called" =>
        /\ (run_outcome.kind = "return" => tool.success)
        /\ (~tool.success => run_outcome.kind = "raise")
        /\ (~tool.success /\ tool.exception # "None" => run_outcome.exc = tool.exception)

C1_Witness ==
    /\ ~tool.success /\ tool.exception = "exc2" /\ Len(tool.result) = 1
    /\ run_outcome.kind = "raise" /\ run_outcome.exc = "exc2"

\* C6: on a failure without exception whose result is a list, run raises
\* DbtRuntimeError with the message of the first entry of status 'error', or
\* with 'DBT execution failed!' when no entry has that status.
C6_FirstErrorMessageRaised ==
    (run_outcome.kind # "not_called" /\ ~tool.success /\ tool.exception = "None"
        /\ tool.iterable) =>
        LET errors == {i \in 1..Len(tool.result) : tool.result[i].status = "error"}
        IN  /\ run_outcome.kind = "raise"
            /\ run_outcome.exc = "DbtRuntimeError"
            /\ IF errors = {}
               THEN run_outcome.msg = "DBT execution failed!"
               ELSE \E i \in errors :
                       /\ \A j \in errors : i <= j
                       /\ run_outcome.msg = tool.result[i].message

C6_Witness ==
    /\ ~tool.success /\ tool.exception = "None" /\ tool.iterable
    /\ Len(tool.result) = 2
    /\ tool.result[1].status = "error" /\ tool.result[1].message = "m1"
    /\ tool.result[2].status = "error" /\ tool.result[2].message = "m2"
    /\ run_outcome.kind = "raise" /\ run_outcome.msg = "m1"

\* a variable is present and neither empty nor whitespace-only
Usable(slot) == slot.attr /\ slot.key /\ \E i \in 1..Len(slot.val) : slot.val[i] # " "

\* C2: the adapter name is the command-line variable when that is present and
\* not blank, whatever the project variables hold; otherwise the project
\* variable when present and not blank; otherwise None.
C2_CliVarsBeforeProjectVars ==
    config_value.kind # "not_called" =>
        IF Usable(config.cli_vars)
        THEN config_value = [kind |-> "str", val |-> config.cli_vars.val]
        ELSE IF Usable(config.vars)
             THEN config_value = [kind |-> "str", val |-> config.vars.val]
             ELSE config_value.kind = "None"

C2_Witness ==
    /\ Usable(config.cli_vars) /\ Usable(config.vars)
    /\ config.cli_vars.val # config.vars.val
    /\ config_value = [kind |-> "str", val |-> config.cli_vars.val]

\* C3: a name without '.' raises ValueError and nothing is imported; a name
\* with a '.' is cut at its last '.', the text before it is the one module
\* imported, and a module that is not found raises an Exception naming the
\* provided adapter instead of returning.
C3_NameValidatedBeforeImport ==
    adapter_class.kind # "not_called" =>
        IF ~Contains(custom_adapter_class_name, ".")
        THEN /\ adapter_class.kind = "raise"
             /\ adapter_class.exc = "ValueError"
             /\ imported = <<>>
        ELSE /\ adapter_class.module \o <<".">> \o adapter_class.attribute
                    = custom_adapter_class_name
             /\ ~Contains(adapter_class.attribute, ".")
             /\ imported = <<adapter_class.module>>
             /\ adapter_class.lookup = "not_found" =>
                    /\ adapter_class.kind = "raise"
                    /\ adapter_class.exc = "Exception"
                    /\ adapter_class.provided = custom_adapter_class_name

C3_Witness ==
    /\ custom_adapter_class_name = <<"a", ".", "a", ".", "a">>
    /\ adapter_class.lookup = "not_found"
    /\ adapter_class.exc = "Exception"
    /\ imported = << <<"a", ".", "a">> >>

\* C5: every read of log returned the 'opendbt' logger, and this code has
\* attached at most one handler to it.
C5_LoggerSingleton ==
    /\ returned \subseteq {"opendbt"}
    /\ handlers <= 1

C5_Witness ==
    /\ \A i \in Insts : inst_log[i] = "opendbt"
    /\ returned = {"opendbt"}
    /\ handlers = 1
    /\ ~root_handlers /\ other_handlers = 0

\* C7: the list handed to the base tool starts with the arguments invoke was
\* given, in their order; '--project-dir' and the project directory are
\* appended exactly when '--project-dir' is not among them, '--profiles-dir'
\* and the profiles directory exactly when it is not among them and the
\* instance has a profiles directory; given at most one '--project-dir' the
\* handed list holds exactly one.
C7_DefaultsOnlyWhereMissing ==
    handed.called =>
        LET given       == last_call.invoke_args
            n           == Len(given)
            addProject  == ~Contains(given, "--project-dir")
            addProfiles == ~Contains(given, "--profiles-dir") /\ profiles_dir
            appended    == SubSeq(handed.args, n + 1, Len(handed.args))
        IN  /\ Len(handed.args) >= n
            /\ SubSeq(handed.args, 1, n) = given
            /\ Len(appended) = (IF addProject THEN 2 ELSE 0) + (IF addProfiles THEN 2 ELSE 0)
            /\ addProject  => appended[1] = "--project-dir" /\ appended[2] = CliProjectDir
            /\ addProfiles => /\ appended[Len(appended) - 1] = "--profiles-dir"
                              /\ appended[Len(appended)] = ProfilesDirPath
            /\ Count(given, "--project-dir") <= 1 => Count(handed.args, "--project-dir") = 1

C7_Witness ==
    /\ last_call.op = "invoke" /\ handed.called /\ profiles_dir
    /\ last_call.invoke_args = <<"--select", "--profiles-dir">>
    /\ handed.args = <<"--select", "--profiles-dir", "--project-dir", CliProjectDir>>

\* the callbacks the project variable 'dbt_callbacks' names, in their order
ConfiguredNames == IF dbt_callbacks.key THEN split(dbt_callbacks.val, ",") ELSE <<>>

\* C4: on every invoke the callback list handed to the base tool is the
\* constructor's callbacks, then the callbacks named in 'dbt_callbacks' in
\* their order, each once, then the callbacks passed to this invoke.
C4_CallbackListAsConfigured ==
    handed.called =>
        /\ \A i \in 1..Len(ConfiguredNames) : ConfiguredNames[i] \in resolvable
        /\ handed.callbacks =
              ctor_callbacks
                 \o [i \in 1..Len(ConfiguredNames) |-> attribute_of(ConfiguredNames[i])]
                 \o last_call.callbacks

\* C8: generate_docs always invokes the base tool with a list that begins
\* with 'docs', 'generate', with extra args and without.
C8_DocsGenerateFirst ==
    (last_call.op = "generate_docs" /\ handed.called) =>
        /\ Len(handed.args) >= 2
        /\ handed.args[1] = "docs"
        /\ handed.args[2] = "generate"

\* C9: OpenDbtProject.run and OpenDbtCli.invoke leave the caller's args list
\* as the caller built it, so every OpenDbtProject.run with that list hands
\* the base tool exactly one '--target' and one '--project-dir'.
C9_CallerArgsUntouched ==
    /\ caller_args = caller_orig
    /\ (last_call.op = "project_run" /\ handed.called
            /\ ~Contains(caller_orig, "--project-dir")
            /\ ~Contains(project_args, "--project-dir")) =>
          /\ Count(handed.args, "--target") = 1
          /\ Count(handed.args, "--project-dir") = 1

====
